---- MODULE Spec2Model ----
(***************************************************************************)
(* Model of parse_fit.py: a top-level script that opens one FIT file,      *)
(* scans its "record" messages for developer fields, then dumps every      *)
(* "field_description" and every "developer_data_id" message.              *)
(*                                                                         *)
(* The FIT decoder (fitparse.FitFile) is an external collaborator.  What   *)
(* the script relies on is modelled here: get_messages(name) is a          *)
(* generator that first replays the messages already decoded (the          *)
(* container keeps them in a list) and then decodes the rest of the file   *)
(* on demand, yielding the messages of the requested type in file order.   *)
(*                                                                         *)
(* Text is a sequence of one-character strings, so that lower() and the    *)
(* substring test `in` are computed and not assumed.  The standard output  *)
(* is the sequence of print calls, each kept as a line record.             *)
(***************************************************************************)
EXTENDS Integers, Sequences, FiniteSets

VARIABLES
    file,        \* input: the data messages of the FIT file, in file order
    openable,    \* input: fitparse.FitFile(path) succeeds on this file
    pc,          \* position of the script
    out,         \* standard output: one element per print call
    messages,    \* the container's list of messages decoded so far
    stream,      \* the part of the file not decoded yet
    complete,    \* the container has reached the end of the file
    cursor,      \* how far the running generator is in `messages`
    i,           \* the enumerate() counter of the record loop
    opens,       \* number of attempts to open the file
    exitStatus   \* -1 while running, then the status of the process

vars == <<file, openable, pc, out, messages, stream, complete, cursor, i,
          opens, exitStatus>>

(***************************************************************************)
(* Bounds of the model.                                                    *)
(***************************************************************************)
MaxMsgs == 3      \* longest file built from the message catalogue
MaxFields == 2    \* most fields of a record built from the field pool

(***************************************************************************)
(* Text.                                                                   *)
(***************************************************************************)
UpperLetters ==
    <<"A","B","C","D","E","F","G","H","I","J","K","L","M",
      "N","O","P","Q","R","S","T","U","V","W","X","Y","Z">>

LowerLetters ==
    <<"a","b","c","d","e","f","g","h","i","j","k","l","m",
      "n","o","p","q","r","s","t","u","v","w","x","y","z">>

LowerChar(c) ==
    IF \E k \in 1..Len(UpperLetters) : UpperLetters[k] = c
    THEN LowerLetters[CHOOSE k \in 1..Len(UpperLetters) : UpperLetters[k] = c]
    ELSE c

\* lower() left out: the text unchanged
LowerIdentity(s) == s

\* str.lower()
Lower(s) == [k \in 1..Len(s) |-> LowerChar(s[k])]

\* pat in s
Contains(s, pat) ==
    \E k \in 0..(Len(s) - Len(pat)) : SubSeq(s, k + 1, k + Len(pat)) = pat

lactate == <<"l","a","c","t","a","t","e">>
Lactate == <<"L","a","c","t","a","t","e">>
TimestampName == <<"t","i","m","e","s","t","a","m","p">>

\* None, as a name (a text) and as a value or a units string
NoneName == <<"NoneType">>
NoneValue == "NoneType"

\* default text conversion of the f-strings
StrName(n) == IF n = NoneName THEN <<"N","o","n","e">> ELSE n
StrValue(v) == IF v = NoneValue THEN "None" ELSE v

(***************************************************************************)
(* Fields and their definition objects (f.field).  A definition object is  *)
(* None or an object with a set of attributes.                             *)
(***************************************************************************)
NoDefinition == [none |-> TRUE, attrs |-> {}]
PlainDefinition == [none |-> FALSE, attrs |-> {}]
StdDefinition == [none |-> FALSE, attrs |-> {<<"is_developer", FALSE>>}]
DevDefinition == [none |-> FALSE, attrs |-> {<<"is_developer", TRUE>>}]
Definitions == {NoDefinition, PlainDefinition, StdDefinition, DevDefinition}

\* hasattr(o, a)
HasAttr(o, a) == \E p \in o.attrs : p[1] = a

\* the truth of o.a, or the exception the access raises
AttrTruth(o, a) ==
    IF o.none \/ ~HasAttr(o, a) THEN "AttributeError"
    ELSE IF (CHOOSE p \in o.attrs : p[1] = a)[2] THEN "True" ELSE "False"

(***************************************************************************)
(* The inputs: field names, fields, messages and files.                    *)
(***************************************************************************)
HeartRateName == <<"h","e","a","r","t","_","r","a","t","e">>
LactateThresholdName == <<"L","a","c","t","a","t","e"," ","T","h","r","e","s","h","o","l","d">>
UpperLactateName == <<"L","A","C","T","A","T","E">>
BloodLactateName == <<"b","l","o","o","d","_","l","a","c","t","a","t","e">>
NearMissName == <<"L","a","c","t","a","t">>
FieldNameName == <<"f","i","e","l","d","_","n","a","m","e">>
UnitsName == <<"u","n","i","t","s">>
ApplicationIdName == <<"a","p","p","l","i","c","a","t","i","o","n","_","i","d">>

RecordNames ==
    {NoneName, TimestampName, HeartRateName, LactateThresholdName,
     UpperLactateName, BloodLactateName, NearMissName}

\* the value and the units a field of a given name carries in the inputs
ValueOf(n) ==
    CASE n = NoneName -> NoneValue
      [] n = TimestampName -> "2024-05-01 10:00:00"
      [] n = HeartRateName -> "150"
      [] n = LactateThresholdName -> "4.0"
      [] n = UpperLactateName -> "2.1"
      [] n = BloodLactateName -> "1.7"
      [] OTHER -> "0"

UnitsOf(n) ==
    CASE n = NoneName -> NoneValue
      [] n = TimestampName -> NoneValue
      [] n = HeartRateName -> "bpm"
      [] n = NearMissName -> ""
      [] OTHER -> "mmol/L"

FieldData(n, d) == [name |-> n, value |-> ValueOf(n), units |-> UnitsOf(n), field |-> d]

FieldPool == {FieldData(n, d) : n \in RecordNames, d \in Definitions}

SeqsUpTo(S, n) == UNION {[1..k -> S] : k \in 0..n}

Message(type, fs) == [name |-> type, fields |-> fs]

PoolRecords == {Message("record", fs) : fs \in SeqsUpTo(FieldPool, MaxFields)}

RecPlain ==
    Message("record", <<FieldData(TimestampName, StdDefinition),
                        FieldData(HeartRateName, StdDefinition)>>)
RecDev ==
    Message("record", <<FieldData(TimestampName, StdDefinition),
                        FieldData(HeartRateName, DevDefinition),
                        FieldData(NoneName, NoDefinition)>>)
RecLactate ==
    Message("record", <<FieldData(LactateThresholdName, PlainDefinition),
                        FieldData(TimestampName, StdDefinition)>>)
RecUpper ==
    Message("record", <<FieldData(UpperLactateName, NoDefinition)>>)
DescLactate ==
    Message("field_description",
            <<[name |-> FieldNameName, value |-> "lactate", units |-> NoneValue,
               field |-> StdDefinition],
              [name |-> UnitsName, value |-> "mmol/L", units |-> NoneValue,
               field |-> StdDefinition]>>)
DescBare ==
    Message("field_description",
            <<[name |-> UnitsName, value |-> "bpm", units |-> NoneValue,
               field |-> StdDefinition]>>)
IdApp ==
    Message("developer_data_id",
            <<[name |-> ApplicationIdName, value |-> "a1b2", units |-> NoneValue,
               field |-> StdDefinition],
              [name |-> NoneName, value |-> "0", units |-> NoneValue,
               field |-> NoDefinition]>>)
IdEmpty == Message("developer_data_id", <<>>)
Session == Message("session", <<FieldData(TimestampName, StdDefinition)>>)

Catalogue ==
    {RecPlain, RecDev, RecLactate, RecUpper, DescLactate, DescBare, IdApp,
     IdEmpty, Session}

\* files of catalogue messages, and files of one record over the field pool
Files == SeqsUpTo(Catalogue, MaxMsgs) \cup {<<r>> : r \in PoolRecords}

(***************************************************************************)
(* The lines the script prints.                                            *)
(***************************************************************************)
Line(k, n, nm, v, u) == [kind |-> k, idx |-> n, name |-> nm, value |-> v, units |-> u]

RecordsBanner == Line("banner", -1, <<>>, "=== ALL RECORD MESSAGES WITH DEVELOPER FIELDS ===", "")
DescBanner == Line("banner", -1, <<>>, "=== ALL DEVELOPER FIELD DESCRIPTION MESSAGES ===", "")
IdBanner == Line("banner", -1, <<>>, "=== ALL DEVELOPER DATA ID MESSAGES ===", "")
BlankLine == Line("", -1, <<>>, "", "")
DescHeader == Line("Field Description:", -1, <<>>, "", "")
IdHeader == Line("Developer Data ID:", -1, <<>>, "", "")

\* print(f"Record #{i} timestamp={ts}")
RecordLine(n, ts) == Line("Record #", n, <<>>, StrValue(ts), "")

\* print(f"  {f.name}: {f.value} ({f.units})")
FieldLineUnits(f) == Line("field", -1, StrName(f.name), StrValue(f.value), StrValue(f.units))

\* print(f"  {f.name}: {f.value}")
FieldLine(f) == Line("pair", -1, StrName(f.name), StrValue(f.value), "")

(***************************************************************************)
(* The collaborator's generator, get_messages(name): the messages of the   *)
(* container's list beyond the cursor first, then the file's rest.         *)
(***************************************************************************)
Min(S) == CHOOSE x \in S : \A y \in S : x <= y

\* for message in self._messages: the positions of the list still to replay
ReplayIdx(type) == {p \in (cursor + 1)..Len(messages) : messages[p].name = type}

\* while not self._complete: the positions of the file's rest that would be yielded
StreamIdx(type) == {q \in 1..Len(stream) : stream[q].name = type}

HasNext(type) == ReplayIdx(type) # {} \/ StreamIdx(type) # {}

NextMessage(type) ==
    IF ReplayIdx(type) # {} THEN messages[Min(ReplayIdx(type))]
    ELSE stream[Min(StreamIdx(type))]

\* next() yields a message: every message decoded on the way joins the list
Yield(type) ==
    IF ReplayIdx(type) # {}
    THEN /\ cursor' = Min(ReplayIdx(type))
         /\ UNCHANGED <<messages, stream, complete>>
    ELSE LET q == Min(StreamIdx(type)) IN
         /\ messages' = messages \o SubSeq(stream, 1, q)
         /\ stream' = SubSeq(stream, q + 1, Len(stream))
         /\ cursor' = Len(messages) + q
         /\ UNCHANGED complete

\* next() raises StopIteration: the file has been decoded to its end
Exhaust ==
    /\ messages' = messages \o stream
    /\ stream' = <<>>
    /\ complete' = TRUE
    /\ cursor' = 0

(***************************************************************************)
(* The record filters, lines 7-18.  A test is "True", "False" or the       *)
(* exception its evaluation raises.                                        *)
(***************************************************************************)
\* the guards of line 10 left out
FieldGuardMissing(f) == TRUE

\* f.field and hasattr(f.field, "is_developer")
FieldGuard(f) == ~f.field.none /\ HasAttr(f.field, "is_developer")

\* hasattr asked of the field data f, which has no such attribute
DevTestOnFieldData(f) == "False"

\* f.field and hasattr(f.field, "is_developer") and f.field.is_developer
DevTest(f) == IF FieldGuard(f) THEN AttrTruth(f.field, "is_developer") ELSE "False"

\* (f.name or "")
NameOrEmpty(f) == IF f.name = NoneName \/ f.name = <<>> THEN <<>> ELSE f.name

\* "lactate" in (f.name or ""), without lower()
LowerTestNoLower(f) == Contains(NameOrEmpty(f), lactate)

\* "lactate" in (f.name or "").lower()
LowerTest(f) == Contains(Lower(NameOrEmpty(f)), lactate)

\* "Lactate" in (f.name or "")
CaseTest(f) == Contains(NameOrEmpty(f), Lactate)

\* the condition of line 17; None has neither lower() nor `in`
NameTest(f) ==
    IF NameOrEmpty(f) = NoneName THEN "AttributeError"
    ELSE IF LowerTest(f) \/ CaseTest(f) THEN "True" ELSE "False"

\* the first comprehension, lines 7-11
DevFields(record) == SelectSeq(record.fields, LAMBDA f : DevTest(f) = "True")

DevRaises(record) ==
    \E k \in 1..Len(record.fields) : DevTest(record.fields[k]) \notin {"True", "False"}

\* the second comprehension, lines 14-18
NamedFields(record) == SelectSeq(record.fields, LAMBDA f : NameTest(f) = "True")

NameRaises(record) ==
    \E k \in 1..Len(record.fields) : NameTest(record.fields[k]) \notin {"True", "False"}

\* dev_fields replaced by all the fields of the record
FinalDevFieldsUnfiltered(record) == record.fields

\* dev_fields at line 19
FinalDevFields(record) ==
    IF DevFields(record) # <<>> THEN DevFields(record) ELSE NamedFields(record)

\* an exception leaves lines 7-18
FilterRaises(record) ==
    \/ DevRaises(record)
    \/ /\ DevFields(record) = <<>>
       /\ NameRaises(record)

\* record.get_value("timestamp"): the value of the first field of that name, or None
GetValue(record, fname) ==
    LET hits == {k \in 1..Len(record.fields) : record.fields[k].name = fname} IN
    IF hits = {} THEN NoneValue ELSE record.fields[Min(hits)].value

\* the index counts the entries printed so far, not the records seen
RecordEntryCounted(n, record) ==
    <<RecordLine(Cardinality({k \in 1..Len(out) : out[k].kind = "Record #"}),
                 GetValue(record, TimestampName))>>
    \o [k \in 1..Len(record.fields) |-> FieldLineUnits(record.fields[k])]
    \o <<BlankLine>>

\* lines 20-24
RecordEntry(n, record) ==
    <<RecordLine(n, GetValue(record, TimestampName))>>
    \o [k \in 1..Len(record.fields) |-> FieldLineUnits(record.fields[k])]
    \o <<BlankLine>>

\* the header of line 28 printed inside the loop of line 29
DescEntryHeaderPerField(msg) ==
    [k \in 1..(2 * Len(msg.fields)) |->
        IF k % 2 = 1 THEN DescHeader ELSE FieldLine(msg.fields[k \div 2])]
    \o <<BlankLine>>

\* lines 28-31
DescEntry(msg) ==
    <<DescHeader>> \o [k \in 1..Len(msg.fields) |-> FieldLine(msg.fields[k])]
    \o <<BlankLine>>

\* lines 35-38
IdEntry(msg) ==
    <<IdHeader>> \o [k \in 1..Len(msg.fields) |-> FieldLine(msg.fields[k])]
    \o <<BlankLine>>

(***************************************************************************)
(* The script.                                                             *)
(***************************************************************************)
Init ==
    /\ file \in Files
    /\ openable \in BOOLEAN
    /\ pc = "open"
    /\ out = <<>>
    /\ messages = <<>>
    /\ stream = file
    /\ complete = FALSE
    /\ cursor = 0
    /\ i = 0
    /\ opens = 0
    /\ exitStatus = -1

\* an uncaught exception ends the process
Abort ==
    /\ pc' = "failed"
    /\ exitStatus' = 1

\* the failure of the open caught and ignored
OpenFileSwallow ==
    /\ pc = "open"
    /\ opens' = opens + 1
    /\ pc' = "records_banner"
    /\ UNCHANGED <<file, openable, out, messages, stream, complete, cursor, i, exitStatus>>

\* line 3
OpenFile ==
    /\ pc = "open"
    /\ opens' = opens + 1
    /\ IF openable
       THEN pc' = "records_banner" /\ UNCHANGED exitStatus
       ELSE Abort
    /\ UNCHANGED <<file, openable, out, messages, stream, complete, cursor, i>>

\* line 5, and the generator of line 6
PrintRecordsBanner ==
    /\ pc = "records_banner"
    /\ out' = Append(out, RecordsBanner)
    /\ cursor' = 0
    /\ pc' = "records"
    /\ UNCHANGED <<file, openable, messages, stream, complete, i, opens, exitStatus>>

\* one iteration of the loop of line 6
ScanRecord ==
    /\ pc = "records"
    /\ HasNext("record")
    /\ Yield("record")
    /\ i' = i + 1
    /\ LET record == NextMessage("record") IN
       IF FilterRaises(record)
       THEN Abort /\ UNCHANGED out
       ELSE /\ out' = IF FinalDevFields(record) # <<>>
                      THEN out \o RecordEntry(i, record)
                      ELSE out
            /\ UNCHANGED <<pc, exitStatus>>
    /\ UNCHANGED <<file, openable, opens>>

\* the loop of line 6 ends
EndRecords ==
    /\ pc = "records"
    /\ ~HasNext("record")
    /\ Exhaust
    /\ pc' = "desc_banner"
    /\ UNCHANGED <<file, openable, out, i, opens, exitStatus>>

\* line 26 printing the banner of line 5 again
PrintDescBannerCopied ==
    /\ pc = "desc_banner"
    /\ out' = Append(out, RecordsBanner)
    /\ cursor' = 0
    /\ pc' = "desc"
    /\ UNCHANGED <<file, openable, messages, stream, complete, i, opens, exitStatus>>

\* line 26, and the generator of line 27
PrintDescBanner ==
    /\ pc = "desc_banner"
    /\ out' = Append(out, DescBanner)
    /\ cursor' = 0
    /\ pc' = "desc"
    /\ UNCHANGED <<file, openable, messages, stream, complete, i, opens, exitStatus>>

\* one iteration of the loop of line 27
DumpDesc ==
    /\ pc = "desc"
    /\ HasNext("field_description")
    /\ Yield("field_description")
    /\ out' = out \o DescEntry(NextMessage("field_description"))
    /\ UNCHANGED <<file, openable, pc, i, opens, exitStatus>>

\* the loop of line 27 ends
EndDesc ==
    /\ pc = "desc"
    /\ ~HasNext("field_description")
    /\ Exhaust
    /\ pc' = "ids_banner"
    /\ UNCHANGED <<file, openable, out, i, opens, exitStatus>>

\* the header of line 35 printed before the loop
PrintIdBannerWithHeader ==
    /\ pc = "ids_banner"
    /\ out' = out \o <<IdBanner, IdHeader>>
    /\ cursor' = 0
    /\ pc' = "ids"
    /\ UNCHANGED <<file, openable, messages, stream, complete, i, opens, exitStatus>>

\* line 33, and the generator of line 34
PrintIdBanner ==
    /\ pc = "ids_banner"
    /\ out' = Append(out, IdBanner)
    /\ cursor' = 0
    /\ pc' = "ids"
    /\ UNCHANGED <<file, openable, messages, stream, complete, i, opens, exitStatus>>

\* one iteration of the loop of line 34
DumpId ==
    /\ pc = "ids"
    /\ HasNext("developer_data_id")
    /\ Yield("developer_data_id")
    /\ out' = out \o IdEntry(NextMessage("developer_data_id"))
    /\ UNCHANGED <<file, openable, pc, i, opens, exitStatus>>

\* the loop of line 34 ends, and with it the script
EndIds ==
    /\ pc = "ids"
    /\ ~HasNext("developer_data_id")
    /\ Exhaust
    /\ pc' = "done"
    /\ exitStatus' = 0
    /\ UNCHANGED <<file, openable, out, i, opens>>

Next ==
    \/ OpenFile
    \/ PrintRecordsBanner
    \/ ScanRecord
    \/ EndRecords
    \/ PrintDescBanner
    \/ DumpDesc
    \/ EndDesc
    \/ PrintIdBanner
    \/ DumpId
    \/ EndIds

Spec == Init /\ [][Next]_vars

(***************************************************************************)
(* Vocabulary of the properties, stated on the input file and the output.  *)
(***************************************************************************)
OfType(type) == SelectSeq(file, LAMBDA m : m.name = type)

Recs == OfType("record")
Descs == OfType("field_description")
Ids == OfType("developer_data_id")

\* the 0-based indices of the record messages the scan has gone through
Seen == 0..(i - 1)

\* the developer-origin indicator of the field is present and true
DeveloperOrigin(f) == ~f.field.none /\ <<"is_developer", TRUE>> \in f.field.attrs

\* the name is present and contains "lactate", each letter in either case
AnyCaseLactate(n) ==
    /\ n # NoneName
    /\ \E k \in 0..(Len(n) - Len(lactate)) :
          \A j \in 1..Len(lactate) : n[k + j] \in {lactate[j], UpperLactateName[j]}

HasDeveloperField(r) == \E k \in 1..Len(r.fields) : DeveloperOrigin(r.fields[k])
HasLactateName(r) == \E k \in 1..Len(r.fields) : AnyCaseLactate(r.fields[k].name)
ShouldReport(r) == HasDeveloperField(r) \/ HasLactateName(r)

Positions(kind) == {k \in 1..Len(out) : out[k].kind = kind}
HeaderAt(n) == {k \in Positions("Record #") : out[k].idx = n}
Reported(n) == HeaderAt(n) # {}

HasTimestamp(r) == \E k \in 1..Len(r.fields) : r.fields[k].name = TimestampName

TimestampText(r) ==
    IF HasTimestamp(r)
    THEN LET k == CHOOSE a \in 1..Len(r.fields) :
                     /\ r.fields[a].name = TimestampName
                     /\ \A b \in 1..(a - 1) : r.fields[b].name # TimestampName
         IN StrValue(r.fields[k].value)
    ELSE "None"

\* at position k of the output: the entry of record r under index n
EntryAt(k, n, r) ==
    /\ k + Len(r.fields) <= Len(out)
    /\ out[k] = [kind |-> "Record #", idx |-> n, name |-> <<>>,
                 value |-> TimestampText(r), units |-> ""]
    /\ \A m \in 1..Len(r.fields) :
          out[k + m] = [kind |-> "field", idx |-> -1,
                        name |-> StrName(r.fields[m].name),
                        value |-> StrValue(r.fields[m].value),
                        units |-> StrValue(r.fields[m].units)]

\* at position k of the output: a header of the given kind and the pairs of msg
PairsAt(k, kind, msg) ==
    /\ k + Len(msg.fields) <= Len(out)
    /\ out[k].kind = kind
    /\ \A m \in 1..Len(msg.fields) :
          out[k + m] = [kind |-> "pair", idx |-> -1,
                        name |-> StrName(msg.fields[m].name),
                        value |-> StrValue(msg.fields[m].value),
                        units |-> ""]

\* the m-th smallest element of a set of positions
Nth(S, m) == CHOOSE x \in S : Cardinality({y \in S : y < x}) = m - 1

BannerAt(b) == {k \in 1..Len(out) : out[k] = b}

AfterRecords == pc \in {"desc_banner", "desc", "ids_banner", "ids", "done"}
AfterDescs == pc \in {"ids_banner", "ids", "done"}

(***************************************************************************)
(* C1: every record message the scan has gone through that holds a field   *)
(* whose developer-origin indicator is present and true has an entry in    *)
(* the output: its index, its timestamp, then all its fields (name, value, *)
(* units) in the record's field order, whatever the fields are named.      *)
(***************************************************************************)
DevRecordReported ==
    \A n \in Seen :
        HasDeveloperField(Recs[n + 1]) =>
            \E k \in HeaderAt(n) : EntryAt(k, n, Recs[n + 1])

DevRecordReportedWitness ==
    /\ pc = "done"
    /\ \E n \in Seen :
          /\ HasDeveloperField(Recs[n + 1])
          /\ ~HasLactateName(Recs[n + 1])
          /\ Len(Recs[n + 1].fields) >= 2
          /\ \E k \in HeaderAt(n) : EntryAt(k, n, Recs[n + 1])

(***************************************************************************)
(* C2: a record message without developer-origin field but with a field    *)
(* whose name contains "lactate" in any letter case is reported through    *)
(* the fallback filter, and its entry is in the output exactly once.       *)
(***************************************************************************)
FallbackReportedOnce ==
    \A n \in Seen :
        (~HasDeveloperField(Recs[n + 1]) /\ HasLactateName(Recs[n + 1])) =>
            /\ Cardinality(HeaderAt(n)) = 1
            /\ \A k \in HeaderAt(n) : EntryAt(k, n, Recs[n + 1])

FallbackReportedOnceWitness ==
    /\ pc = "done"
    /\ \E n \in Seen :
          /\ ~HasDeveloperField(Recs[n + 1])
          /\ \E a \in 1..Len(Recs[n + 1].fields) :
                Recs[n + 1].fields[a].name = LactateThresholdName
          /\ Cardinality(HeaderAt(n)) = 1

(***************************************************************************)
(* C3: when no record of the file has a developer-origin field and no      *)
(* record field name contains "lactate" in any case, the first section is  *)
(* its banner alone: no "Record #" entry, however many records there are.  *)
(***************************************************************************)
NothingToReport == \A n \in 1..Len(Recs) : ~ShouldReport(Recs[n])

FirstSection ==
    IF BannerAt(DescBanner) = {} THEN out
    ELSE SubSeq(out, 1, Nth(BannerAt(DescBanner), 1) - 1)

EmptyFirstSection ==
    (NothingToReport /\ pc \in {"records", "desc_banner", "desc", "ids_banner", "ids", "done"}) =>
        /\ FirstSection = <<RecordsBanner>>
        /\ Positions("Record #") = {}

EmptyFirstSectionWitness ==
    /\ pc = "done"
    /\ NothingToReport
    /\ Len(Recs) >= 2
    /\ FirstSection = <<RecordsBanner>>

EmptyIdSection ==
    (Len(Ids) = 0 /\ openable) =>
        /\ pc # "failed"
        /\ Positions("Developer Data ID:") = {}
        /\ pc \in {"ids", "done"} => out[Len(out)] = IdBanner
        /\ pc = "done" => exitStatus = 0

EmptyIdSectionWitness ==
    /\ pc = "done"
    /\ Len(Ids) = 0
    /\ Len(Descs) >= 1
    /\ Len(Recs) >= 1
    /\ out[Len(out)] = IdBanner
    /\ exitStatus = 0

(***************************************************************************)
(* C6: when the open fails, the failure is not caught: the script never    *)
(* gets beyond the open, it ends failed with a non-zero status, nothing    *)
(* has been printed, and the open was attempted once.                      *)
(***************************************************************************)
OpenFailureAborts ==
    ~openable =>
        /\ pc \in {"open", "failed"}
        /\ out = <<>>
        /\ opens <= 1
        /\ pc = "failed" => (exitStatus # 0 /\ exitStatus # -1 /\ opens = 1)

OpenFailureAbortsWitness ==
    /\ ~openable
    /\ pc = "failed"
    /\ Len(Recs) >= 1
    /\ out = <<>>

(***************************************************************************)
(* C7: in a completed run the three banners are printed once each, in the  *)
(* order records, field descriptions, developer data IDs; every record     *)
(* entry lies between the first and the second, every field description    *)
(* entry between the second and the third, every developer data ID entry   *)
(* after the third.                                                        *)
(***************************************************************************)
SectionsInOrder ==
    pc = "done" =>
        /\ Cardinality(BannerAt(RecordsBanner)) = 1
        /\ Cardinality(BannerAt(DescBanner)) = 1
        /\ Cardinality(BannerAt(IdBanner)) = 1
        /\ Cardinality(Positions("banner")) = 3
        /\ \A b1 \in BannerAt(RecordsBanner), b2 \in BannerAt(DescBanner),
              b3 \in BannerAt(IdBanner) :
              /\ b1 = 1 /\ b1 < b2 /\ b2 < b3
              /\ \A k \in Positions("Record #") \cup Positions("field") : b1 < k /\ k < b2
              /\ \A k \in Positions("Field Description:") : b2 < k /\ k < b3
              /\ \A k \in Positions("Developer Data ID:") : b3 < k
              /\ \A k \in Positions("pair") : b2 < k

SectionsInOrderWitness ==
    /\ pc = "done"
    /\ Positions("Record #") # {}
    /\ Positions("Field Description:") # {}
    /\ Positions("Developer Data ID:") # {}

(***************************************************************************)
(* C8: the index printed with an entry is the 0-based position of its      *)
(* record among all the record messages of the file, the unreported ones   *)
(* counted; the entries come with strictly increasing indices, and the     *)
(* indices printed are those of the records to report, the others missing. *)
(***************************************************************************)
IndexIsFilePosition ==
    /\ \A k \in Positions("Record #") :
          /\ out[k].idx \in Seen
          /\ EntryAt(k, out[k].idx, Recs[out[k].idx + 1])
    /\ \A k, l \in Positions("Record #") : k < l => out[k].idx < out[l].idx
    /\ {out[k].idx : k \in Positions("Record #")} = {n \in Seen : ShouldReport(Recs[n + 1])}

IndexIsFilePositionWitness ==
    /\ pc = "done"
    /\ Len(Recs) >= 3
    /\ ~Reported(0)
    /\ Reported(1)
    /\ Reported(2)

(***************************************************************************)
(* C9: the record scan never raises on missing attributes: the run fails   *)
(* only when the open fails; a record whose fields all lack the            *)
(* developer-origin indicator (no definition object, or a definition       *)
(* without the indicator) and all lack a name is not reported; a reported  *)
(* record without timestamp field is printed with the timestamp None.      *)
(***************************************************************************)
LacksIndicator(f) == f.field.none \/ ~HasAttr(f.field, "is_developer")

ScanToleratesAbsence ==
    /\ pc = "failed" => ~openable
    /\ \A n \in Seen :
          LET r == Recs[n + 1] IN
          /\ (\A k \in 1..Len(r.fields) :
                 LacksIndicator(r.fields[k]) /\ r.fields[k].name = NoneName)
             => ~Reported(n)
          /\ (Reported(n) /\ ~HasTimestamp(r))
             => \A k \in HeaderAt(n) : out[k].value = "None"

ScanToleratesAbsenceWitness ==
    /\ pc = "done"
    /\ \E n \in Seen :
          LET r == Recs[n + 1] IN
          /\ \E k \in 1..Len(r.fields) : r.fields[k].field = NoDefinition
          /\ \E k \in 1..Len(r.fields) : r.fields[k].field = PlainDefinition
          /\ \E k \in 1..Len(r.fields) : r.fields[k].name = NoneName
          /\ ~HasTimestamp(r)
          /\ Reported(n)
          /\ \A k \in HeaderAt(n) : out[k].value = "None"

(***************************************************************************)
(* C10: the case-sensitive "Lactate" test is redundant: for every field    *)
(* of every record of the file, absent names included, the condition of    *)
(* line 17 selects the field exactly when its case-insensitive half does,  *)
(* and the records reported are those the scan would report without the    *)
(* case-sensitive half.                                                    *)
(***************************************************************************)
CaseTestRedundant ==
    /\ \A n \in 1..Len(Recs) : \A k \in 1..Len(Recs[n].fields) :
          LET f == Recs[n].fields[k] IN
          /\ (NameTest(f) = "True") <=> LowerTest(f)
          /\ CaseTest(f) => LowerTest(f)
    /\ \A n \in Seen :
          Reported(n) <=>
             \/ DevFields(Recs[n + 1]) # <<>>
             \/ \E k \in 1..Len(Recs[n + 1].fields) : LowerTest(Recs[n + 1].fields[k])

CaseTestRedundantWitness ==
    /\ pc = "done"
    /\ \E n \in Seen : \E k \in 1..Len(Recs[n + 1].fields) :
          CaseTest(Recs[n + 1].fields[k]) /\ Reported(n)
    /\ \E n \in Seen : \E k \in 1..Len(Recs[n + 1].fields) :
          LowerTest(Recs[n + 1].fields[k]) /\ ~CaseTest(Recs[n + 1].fields[k])
    /\ \E n \in Seen : \E k \in 1..Len(Recs[n + 1].fields) :
          Recs[n + 1].fields[k].name = NoneName

====
